---- MODULE Spec2Model ----
(***************************************************************************)
(* Quiz attempt lifecycle of brain-flex-learn: the quiz-taking page        *)
(* (src/src/pages/QuizTaking.tsx) against the Postgres schema and the      *)
(* track_user_engagement trigger (src/supabase/migrations).                *)
(*                                                                         *)
(* A "client" is one load of the quiz-taking page (a browser tab, or a     *)
(* reload of one).  Every await of a handler is a separate step, so the    *)
(* storage calls of different handler invocations interleave; a storage    *)
(* statement with its trigger is one atomic step.  A storage call returns  *)
(* {data, error}: it never throws, and an error leaves the tables as they  *)
(* were.                                                                   *)
(*                                                                         *)
(* Three scenarios are explored (the variable scenario, fixed by Init):    *)
(*   "single":  one page on any quiz of the catalogue, any answer text,    *)
(*              whose handlers are not re-entered while pending and whose  *)
(*              storage calls may return an error;                         *)
(*   "overlap": one page on the one-question quiz whose async handlers can *)
(*              be invoked again while an invocation is pending (a double  *)
(*              click), up to MaxInFlight pending invocations; storage     *)
(*              calls succeed;                                             *)
(*   "pages":   two pages on the one-question quiz, open at once,          *)
(*              handlers not re-entered, storage calls succeed.            *)
(* Columns and component state that no operation of the engine reads       *)
(* (titles, explanations, the per-question timer, created_at, ...) are     *)
(* left out.                                                               *)
(***************************************************************************)
EXTENDS Integers, Sequences, FiniteSets, Bags, TLC

\* ------------------------------------------------------------- bounds
MaxInFlight == 2     \* invocations of one async handler a page has pending
MaxTime == 1         \* seconds the clock advances during a run

\* The pages ("pages" opens them all; a third page puts the state space
\* out of reach of an exhaustive search).
Clients == {1, 2}
Users == {"u1", "u2"}
\* Who may be signed in on a page: the first page is u1's.
SessionUsers(c) == IF c = 1 THEN {"u1"} ELSE Users
QuizIds == {"q1", "q2", "q3", "q4"}

\* A nullable column or state holding no value.
NULL == -1

\* useState<Quiz | null>(null): the page holds the quiz's id, or no quiz.
NoQuiz == "none"

\* DATE(ts): the clock's day has DayLen seconds.  A run starts one second
\* before midnight, so that it can cross a date.
DayLen == 2
DATE(ts) == ts \div DayLen
ClockStart == DayLen - 1

\* ------------------------------------------------------------- catalogue
\* Texts are sequences of characters; "" is the empty sequence.
EmptyText == << >>

\* q1: a published quiz with three questions (1, 2 and 1 points);
\* q2: a published quiz seeded with total_questions = 5 and no question rows;
\* q3: an unpublished quiz;
\* q4: a published quiz with one question (2 points).
quizzes ==
  [q \in QuizIds |->
     CASE q = "q1" -> [id |-> "q1", is_published |-> TRUE, total_questions |-> 3]
       [] q = "q2" -> [id |-> "q2", is_published |-> TRUE, total_questions |-> 5]
       [] q = "q3" -> [id |-> "q3", is_published |-> FALSE, total_questions |-> 1]
       [] q = "q4" -> [id |-> "q4", is_published |-> TRUE, total_questions |-> 1]]

questionRows ==
  { [id |-> "qa", quiz_id |-> "q1", correct_answer |-> <<"a">>, points |-> 1, order_index |-> 1],
    [id |-> "qb", quiz_id |-> "q1", correct_answer |-> <<"a">>, points |-> 2, order_index |-> 2],
    [id |-> "qe", quiz_id |-> "q1", correct_answer |-> <<"b">>, points |-> 1, order_index |-> 3],
    [id |-> "qc", quiz_id |-> "q3", correct_answer |-> <<"b">>, points |-> 1, order_index |-> 1],
    [id |-> "qd", quiz_id |-> "q4", correct_answer |-> <<"a">>, points |-> 2, order_index |-> 0] }

\* What a user can pick or type as an answer: an option, or a text with
\* surrounding white space.
AnswerOptions == { <<"a">>, <<"b">> }
AnswerTexts == AnswerOptions \cup { <<" ", "a">> }

\* select('*').eq('quiz_id', q).order('order_index')
OrderByIndex(S) ==
  CHOOSE s \in [1..Cardinality(S) -> S] :
    /\ \A i, j \in 1..Cardinality(S) : i < j => s[i].order_index < s[j].order_index
    /\ {s[i] : i \in 1..Cardinality(S)} = S

SelectQuestions(q) == OrderByIndex({r \in questionRows : r.quiz_id = q})

\* ------------------------------------------------------------- state
VARIABLES
  \* storage
  quiz_attempts,            \* sequence of rows; a row's id is its index
  question_attempts,        \* bag of rows (the table has no unique key but id)
  profiles,                 \* user_id -> [points, streak_count]
  user_engagement_metrics,  \* set of rows
  quiz_assignments,         \* set of rows
  now,                      \* the clock
  scenario,                 \* "single" | "overlap" | "pages"
  \* one quiz-taking page per client
  page,                     \* "closed" | "quiz" | "dashboard"
  user, quizId,             \* useAuth().user, useParams().quizId
  quiz, questions, currentQuestionIndex, selectedAnswer, showFeedback,
  quizAttemptId, attempts, startTime, isCompleted, finalScore, loading,
  submitCalls,              \* pending handleAnswerSubmit invocations
  completeCalls,            \* pending completeQuiz invocations
  \* history
  pointDeltas,              \* attempt id -> the totalPoints added to profile.points for it
  completionLog             \* the NULL -> non-NULL transitions of completed_at

dbVars == <<quiz_attempts, question_attempts, profiles, user_engagement_metrics,
            quiz_assignments>>
routeVars == <<page, user, quizId, quiz, questions, quizAttemptId, startTime,
               loading>>
answerVars == <<currentQuestionIndex, selectedAnswer, showFeedback, attempts>>
doneVars == <<isCompleted, finalScore>>
histVars == <<pointDeltas, completionLog>>
vars == <<dbVars, now, scenario, routeVars, answerVars, doneVars, submitCalls, completeCalls,
          histVars>>

\* profiles.points / streak_count of the accounts when the run starts:
\* accounts with earlier activity (the columns default to 0).
InitProfile == [points |-> 5, streak_count |-> 2]

InitAssignments ==
  { [quiz_id |-> "q1", user_id |-> "u1", is_completed |-> FALSE, completed_at |-> NULL],
    [quiz_id |-> "q4", user_id |-> "u1", is_completed |-> FALSE, completed_at |-> NULL],
    [quiz_id |-> "q2", user_id |-> "u2", is_completed |-> FALSE, completed_at |-> NULL] }

\* The pages that can be opened, the invocations of one async handler a page
\* can have pending, and what a storage call can return, per scenario.
Pages == IF scenario = "pages" THEN Clients ELSE {1}
PendingLimit == IF scenario = "overlap" THEN MaxInFlight ELSE 1
Returns == IF scenario = "single" THEN BOOLEAN ELSE {TRUE}
QuizChoices == IF scenario = "single" THEN QuizIds ELSE {"q4"}
AnswerChoices == IF scenario = "single" THEN AnswerTexts ELSE AnswerOptions

InitState ==
  /\ quiz_attempts = << >>
  /\ question_attempts = EmptyBag
  /\ profiles = [u \in Users |-> InitProfile]
  /\ user_engagement_metrics = {}
  /\ quiz_assignments = InitAssignments
  /\ now = ClockStart
  /\ page = [c \in Clients |-> "closed"]
  /\ user = [c \in Clients |-> "u1"]
  /\ quizId = [c \in Clients |-> "q1"]
  /\ quiz = [c \in Clients |-> NoQuiz]
  /\ questions = [c \in Clients |-> << >>]
  /\ currentQuestionIndex = [c \in Clients |-> 0]
  /\ selectedAnswer = [c \in Clients |-> EmptyText]
  /\ showFeedback = [c \in Clients |-> FALSE]
  /\ quizAttemptId = [c \in Clients |-> NULL]
  /\ attempts = [c \in Clients |-> << >>]
  /\ startTime = [c \in Clients |-> ClockStart]
  /\ isCompleted = [c \in Clients |-> FALSE]
  /\ finalScore = [c \in Clients |-> 0]
  /\ loading = [c \in Clients |-> TRUE]
  /\ submitCalls = [c \in Clients |-> << >>]
  /\ completeCalls = [c \in Clients |-> << >>]
  /\ pointDeltas = << >>
  /\ completionLog = {}

Scenarios == {"single", "overlap", "pages"}

Init == InitState /\ scenario \in Scenarios

\* ------------------------------------------------------------- clock
Tick ==
  /\ now < ClockStart + MaxTime
  /\ now' = now + 1
  /\ UNCHANGED <<dbVars, scenario, routeVars, answerVars, doneVars, submitCalls,
                 completeCalls, histVars>>

\* ------------------------------------------------------------- page load
\* The page the component renders once loading is false: the quiz, or a
\* redirect to the dashboard when there is no quiz or no question.
Rendered(quizNow, questionsNow) ==
  IF quizNow = NoQuiz \/ Len(questionsNow) = 0 THEN "dashboard" ELSE "quiz"

\* The row initializeQuiz inserts; the other columns take their defaults.
NewAttemptRow(u, q, totalQuestions, t) ==
  [user_id |-> u, quiz_id |-> q, total_questions |-> totalQuestions,
   started_at |-> t, completed_at |-> NULL, score |-> 0, correct_answers |-> 0,
   time_spent_seconds |-> 0]

InitOutcomes == {"ok", "quizError", "questionsError", "attemptError"}

\* Mutant: the attempt is inserted whatever the two fetches returned.
AttemptInserted_Regardless(q, outcome) == outcome # "attemptError"

\* initializeQuiz reaches its insert, and the insert returns a row: the quiz
\* was fetched (it is published) and so were its questions.
AttemptInserted(q, outcome) ==
  /\ outcome = "ok"
  /\ quizzes[q].is_published

\* The component mounts for (user u, quizId q) and its effect runs
\* initializeQuiz to the end.  The quizzes and questions tables do not change
\* here, so the three awaits are taken in one step; outcome says which
\* storage call, if any, returned an error.
initializeQuiz(c, u, q, outcome) ==
  LET quizFound == outcome # "quizError" /\ quizzes[q].is_published
      questionsFound == quizFound /\ outcome # "questionsError"
      inserted == AttemptInserted(q, outcome)
      questionsData == SelectQuestions(q)
  IN
  /\ c \in Pages
  /\ outcome = "ok" \/ FALSE \in Returns
  /\ page[c] = "closed"
  /\ user' = [user EXCEPT ![c] = u]
  /\ quizId' = [quizId EXCEPT ![c] = q]
  /\ startTime' = [startTime EXCEPT ![c] = now]
  /\ loading' = [loading EXCEPT ![c] = FALSE]
  /\ quiz' = [quiz EXCEPT ![c] = IF quizFound THEN q ELSE NoQuiz]
  /\ questions' = [questions EXCEPT ![c] = IF questionsFound THEN questionsData ELSE << >>]
  /\ IF inserted
     THEN /\ quiz_attempts' = Append(quiz_attempts,
               NewAttemptRow(u, q, Len(questionsData), now))
          /\ pointDeltas' = Append(pointDeltas, << >>)
          /\ quizAttemptId' = [quizAttemptId EXCEPT ![c] = Len(quiz_attempts) + 1]
          /\ page' = [page EXCEPT ![c] = Rendered(q, questionsData)]
     ELSE /\ page' = [page EXCEPT ![c] = "dashboard"]
          /\ UNCHANGED <<quiz_attempts, pointDeltas, quizAttemptId>>
  /\ UNCHANGED <<question_attempts, profiles, user_engagement_metrics,
                 quiz_assignments, now, scenario, answerVars, doneVars,
                 submitCalls, completeCalls, completionLog>>

\* The question card is on screen.
QuestionPage(c) == page[c] = "quiz" /\ ~loading[c] /\ ~isCompleted[c]

\* ------------------------------------------------------------- answering
\* onClick / onChange of an answer control.
setSelectedAnswer(c, option) ==
  /\ QuestionPage(c)
  /\ ~showFeedback[c]
  /\ selectedAnswer' = [selectedAnswer EXCEPT ![c] = option]
  /\ UNCHANGED <<dbVars, now, scenario, routeVars, currentQuestionIndex, showFeedback,
                 attempts, doneVars, submitCalls, completeCalls, histVars>>

\* selectedAnswer === currentQuestion.correct_answer
AnswerMatches(answer, question) == answer = question.correct_answer

\* Mutant: the Submit button stays on screen beside the feedback.
SubmitRendered_Always(c) == TRUE

\* {!showFeedback ? <Submit Answer> : <Next Question / Complete Quiz>}
SubmitRendered(c) == ~showFeedback[c]
NextRendered(c) == showFeedback[c]

\* handleAnswerSubmit up to its await: the row it sends to question_attempts.
handleAnswerSubmit(c) ==
  LET currentQuestion == questions[c][currentQuestionIndex[c] + 1]
      isCorrect == AnswerMatches(selectedAnswer[c], currentQuestion)
  IN
  /\ QuestionPage(c)
  /\ SubmitRendered(c)                      \* the Submit button is rendered
  /\ selectedAnswer[c] # EmptyText          \* and enabled
  /\ quizAttemptId[c] # NULL
  /\ Len(submitCalls[c]) < PendingLimit
  /\ submitCalls' = [submitCalls EXCEPT ![c] = Append(@,
        [quiz_attempt_id |-> quizAttemptId[c],
         question_id |-> currentQuestion.id,
         user_answer |-> selectedAnswer[c],
         is_correct |-> isCorrect,
         points_earned |-> IF isCorrect THEN currentQuestion.points ELSE 0])]
  /\ UNCHANGED <<dbVars, now, scenario, routeVars, answerVars, doneVars, completeCalls,
                 histVars>>

RemoveAt(s, i) == SubSeq(s, 1, i - 1) \o SubSeq(s, i + 1, Len(s))

\* INSERT INTO question_attempts: the table has a primary key on id only.
InsertQuestionAttempt(table, row) == table (+) SetToBag({row})

\* The insert of pending invocation i runs and handleAnswerSubmit resumes.
\* The returned error is not looked at.
AnswerSubmitReturns(c, i, ok) ==
  LET row == submitCalls[c][i] IN
  /\ i \in 1..Len(submitCalls[c])
  /\ ok \in Returns
  /\ question_attempts' = IF ok THEN InsertQuestionAttempt(question_attempts, row)
                          ELSE question_attempts
  /\ attempts' = [attempts EXCEPT ![c] = Append(@,
        [questionId |-> row.question_id, userAnswer |-> row.user_answer,
         isCorrect |-> row.is_correct, pointsEarned |-> row.points_earned])]
  /\ showFeedback' = [showFeedback EXCEPT ![c] = TRUE]
  /\ submitCalls' = [submitCalls EXCEPT ![c] = RemoveAt(@, i)]
  /\ UNCHANGED <<quiz_attempts, profiles, user_engagement_metrics, quiz_assignments,
                 now, scenario, routeVars, currentQuestionIndex, selectedAnswer,
                 doneVars, completeCalls, histVars>>

\* ------------------------------------------------------------- finishing
\* Mutant: the percentage truncated instead of rounded.
RoundPercent_Truncate(num, den) == (100 * num) \div den

\* Math.round(num / den * 100) for num >= 0, den > 0: round half up.
RoundPercent(num, den) == (200 * num + den) \div (2 * den)

RECURSIVE SumSeq(_)
SumSeq(s) == IF s = << >> THEN 0 ELSE Head(s) + SumSeq(Tail(s))

\* attempts.filter(a => a.isCorrect).length and the reduce over pointsEarned
CorrectCount(list) == Cardinality({k \in 1..Len(list) : list[k].isCorrect})
PointsSum(list) == SumSeq([k \in 1..Len(list) |-> list[k].pointsEarned])

\* The terms completeQuiz adds for the question on screen.
DisplayedCorrect(c) ==
  IF showFeedback[c]
     /\ AnswerMatches(selectedAnswer[c], questions[c][currentQuestionIndex[c] + 1])
  THEN 1 ELSE 0
DisplayedPoints(c) ==
  IF showFeedback[c]
     /\ AnswerMatches(selectedAnswer[c], questions[c][currentQuestionIndex[c] + 1])
  THEN questions[c][currentQuestionIndex[c] + 1].points ELSE 0

\* completeQuiz up to its first await: what it computed from the render's
\* state, and the update it sends.
completeQuizCall(c) ==
  LET correctAnswers == CorrectCount(attempts[c]) + DisplayedCorrect(c)
      totalPoints == PointsSum(attempts[c]) + DisplayedPoints(c)
  IN [quizAttemptId |-> quizAttemptId[c],
      user_id |-> user[c],
      totalTimeSpent |-> now - startTime[c],
      completed_at |-> now,
      correctAnswers |-> correctAnswers,
      totalPoints |-> totalPoints,
      score |-> RoundPercent(correctAnswers, Len(questions[c])),
      pc |-> "update",
      currentProfile |-> InitProfile]

\* Mutant: every question is taken for the last one.
HasNextQuestion_Never(c) == FALSE

\* currentQuestionIndex < questions.length - 1
HasNextQuestion(c) == currentQuestionIndex[c] < Len(questions[c]) - 1

\* The Next Question / Complete Quiz button.
handleNextQuestion(c) ==
  /\ QuestionPage(c)
  /\ NextRendered(c)
  /\ IF HasNextQuestion(c)
     THEN /\ currentQuestionIndex' = [currentQuestionIndex EXCEPT ![c] = @ + 1]
          /\ selectedAnswer' = [selectedAnswer EXCEPT ![c] = EmptyText]
          /\ showFeedback' = [showFeedback EXCEPT ![c] = FALSE]
          /\ UNCHANGED completeCalls
     ELSE /\ quizAttemptId[c] # NULL
          /\ Len(completeCalls[c]) < PendingLimit
          /\ completeCalls' = [completeCalls EXCEPT ![c] = Append(@, completeQuizCall(c))]
          /\ UNCHANGED <<currentQuestionIndex, selectedAnswer, showFeedback>>
  /\ UNCHANGED <<dbVars, now, scenario, routeVars, attempts, doneVars, submitCalls,
                 histVars>>

\* ---- the track_user_engagement trigger (AFTER UPDATE ON quiz_attempts)
\* Mutant: the trigger without its OLD.completed_at IS NULL test.
TriggerFires_AnyCompletedWrite(OLDROW, NEWROW) == NEWROW.completed_at # NULL

TriggerFires(OLDROW, NEWROW) == NEWROW.completed_at # NULL /\ OLDROW.completed_at = NULL

\* Mutant: ON CONFLICT overwrites the row with the new attempt's values.
UpsertEngagement_Overwrite(table, NEWROW) ==
  {r \in table : ~(r.user_id = NEWROW.user_id /\ r.date = DATE(NEWROW.completed_at))}
    \cup { [user_id |-> NEWROW.user_id, date |-> DATE(NEWROW.completed_at),
             quizzes_completed |-> 1,
             total_time_spent_seconds |-> NEWROW.time_spent_seconds,
             total_score |-> NEWROW.score] }

\* Mutant: ON CONFLICT counts the attempt and sets the totals to its values.
UpsertEngagement_ResetTotals(table, NEWROW) ==
  LET key(r) == r.user_id = NEWROW.user_id /\ r.date = DATE(NEWROW.completed_at) IN
  IF \E r \in table : key(r)
  THEN { IF key(r)
         THEN [r EXCEPT !.quizzes_completed = @ + 1,
                        !.total_time_spent_seconds = NEWROW.time_spent_seconds,
                        !.total_score = NEWROW.score]
         ELSE r : r \in table }
  ELSE table \cup { [user_id |-> NEWROW.user_id, date |-> DATE(NEWROW.completed_at),
                     quizzes_completed |-> 1,
                     total_time_spent_seconds |-> NEWROW.time_spent_seconds,
                     total_score |-> NEWROW.score] }

\* INSERT ... ON CONFLICT (user_id, date) DO UPDATE SET ...
UpsertEngagement(table, NEWROW) ==
  LET key(r) == r.user_id = NEWROW.user_id /\ r.date = DATE(NEWROW.completed_at) IN
  IF \E r \in table : key(r)
  THEN { IF key(r)
         THEN [r EXCEPT !.quizzes_completed = @ + 1,
                        !.total_time_spent_seconds = @ + NEWROW.time_spent_seconds,
                        !.total_score = @ + NEWROW.score]
         ELSE r : r \in table }
  ELSE table \cup { [user_id |-> NEWROW.user_id, date |-> DATE(NEWROW.completed_at),
                     quizzes_completed |-> 1,
                     total_time_spent_seconds |-> NEWROW.time_spent_seconds,
                     total_score |-> NEWROW.score] }

\* Mutant: the assignment update without its quiz_id condition.
CompleteAssignment_AllOfUser(table, NEWROW) ==
  { IF r.user_id = NEWROW.user_id
    THEN [r EXCEPT !.is_completed = TRUE, !.completed_at = NEWROW.completed_at]
    ELSE r : r \in table }

\* UPDATE quiz_assignments SET is_completed = true, completed_at = NEW.completed_at
\* WHERE quiz_id = NEW.quiz_id AND user_id = NEW.user_id
CompleteAssignment(table, NEWROW) ==
  { IF r.quiz_id = NEWROW.quiz_id /\ r.user_id = NEWROW.user_id
    THEN [r EXCEPT !.is_completed = TRUE, !.completed_at = NEWROW.completed_at]
    ELSE r : r \in table }

\* Mutant: an update that also restarts the attempt.
UpdatedAttempt_Restart(OLDROW, call) ==
  [OLDROW EXCEPT !.completed_at = call.completed_at,
              !.started_at = call.completed_at,
              !.time_spent_seconds = call.totalTimeSpent,
              !.score = call.score,
              !.correct_answers = call.correctAnswers]

\* Mutant: an update of a completed attempt clears its completed_at.
UpdatedAttempt_Reopen(OLDROW, call) ==
  [OLDROW EXCEPT !.completed_at = IF OLDROW.completed_at = NULL
                                  THEN call.completed_at ELSE NULL,
              !.time_spent_seconds = call.totalTimeSpent,
              !.score = call.score,
              !.correct_answers = call.correctAnswers]

\* UPDATE quiz_attempts SET ... WHERE id = quizAttemptId
UpdatedAttempt(OLDROW, call) ==
  [OLDROW EXCEPT !.completed_at = call.completed_at,
              !.time_spent_seconds = call.totalTimeSpent,
              !.score = call.score,
              !.correct_answers = call.correctAnswers]

\* Mutant: the update matches every attempt of the user.
UpdateAttemptById_AllOfUser(table, id, call) ==
  [a \in DOMAIN table |->
     IF table[a].user_id = table[id].user_id
     THEN UpdatedAttempt(table[a], call) ELSE table[a]]

\* .from('quiz_attempts').update({...}).eq('id', quizAttemptId)
UpdateAttemptById(table, id, call) ==
  [table EXCEPT ![id] = UpdatedAttempt(table[id], call)]

SetCall(c, i, call) == [completeCalls EXCEPT ![c][i] = call]

\* The update of pending completeQuiz invocation i runs, with its trigger.
CompleteUpdateReturns(c, i, ok) ==
  /\ i \in 1..Len(completeCalls[c])
  /\ ok \in Returns
  /\ LET call == completeCalls[c][i]
         id == call.quizAttemptId
         OLDROW == quiz_attempts[id]
         NEWROW == UpdatedAttempt(OLDROW, call)
     IN
     /\ call.pc = "update"
     /\ completeCalls' = SetCall(c, i, [call EXCEPT !.pc = "select"])
     /\ IF ok
        THEN /\ quiz_attempts' = UpdateAttemptById(quiz_attempts, id, call)
             /\ IF TriggerFires(OLDROW, NEWROW)
                THEN /\ user_engagement_metrics' = UpsertEngagement(user_engagement_metrics, NEWROW)
                     /\ quiz_assignments' = CompleteAssignment(quiz_assignments, NEWROW)
                ELSE UNCHANGED <<user_engagement_metrics, quiz_assignments>>
             /\ completionLog' =
                  IF OLDROW.completed_at = NULL
                  THEN completionLog \cup
                         { [attempt |-> id, user_id |-> NEWROW.user_id,
                            completed_at |-> NEWROW.completed_at,
                            date |-> DATE(NEWROW.completed_at),
                            time_spent_seconds |-> NEWROW.time_spent_seconds,
                            score |-> NEWROW.score] }
                  ELSE completionLog
        ELSE UNCHANGED <<quiz_attempts, user_engagement_metrics, quiz_assignments,
                         completionLog>>
  /\ UNCHANGED <<question_attempts, profiles, now, scenario, routeVars, answerVars,
                 doneVars, submitCalls, pointDeltas>>

\* setFinalScore(score); setIsCompleted(true): the end of completeQuiz.
Finish(c, i) ==
  /\ finalScore' = [finalScore EXCEPT ![c] = completeCalls[c][i].score]
  /\ isCompleted' = [isCompleted EXCEPT ![c] = TRUE]
  /\ completeCalls' = [completeCalls EXCEPT ![c] = RemoveAt(@, i)]

\* The select of profiles returns; without a row completeQuiz skips the
\* profile update and ends.
CompleteSelectReturns(c, i, ok) ==
  /\ i \in 1..Len(completeCalls[c])
  /\ ok \in Returns
  /\ LET call == completeCalls[c][i] IN
     /\ call.pc = "select"
     /\ IF ok
        THEN /\ completeCalls' = SetCall(c, i,
                  [call EXCEPT !.pc = "write", !.currentProfile = profiles[call.user_id]])
             /\ UNCHANGED doneVars
        ELSE Finish(c, i)
  /\ UNCHANGED <<dbVars, now, scenario, routeVars, answerVars, submitCalls, histVars>>

\* newStreak = score >= 70 ? currentProfile.streak_count + 1 : 0
StreakThreshold == 70
\* Mutant: a score below the threshold leaves the streak as it was.
NewStreak_KeepOnFail(score, streak_count) ==
  IF score >= StreakThreshold THEN streak_count + 1 ELSE streak_count
NewStreak(score, streak_count) == IF score >= StreakThreshold THEN streak_count + 1 ELSE 0

\* UPDATE profiles SET points = <read value + totalPoints>, streak_count = newStreak
UpdatedProfile(call) ==
  [points |-> call.currentProfile.points + call.totalPoints,
   streak_count |-> NewStreak(call.score, call.currentProfile.streak_count)]

\* The update of profiles returns and completeQuiz ends.
CompleteWriteReturns(c, i, ok) ==
  /\ i \in 1..Len(completeCalls[c])
  /\ ok \in Returns
  /\ LET call == completeCalls[c][i] IN
     /\ call.pc = "write"
     /\ IF ok
        THEN /\ profiles' = [profiles EXCEPT ![call.user_id] = UpdatedProfile(call)]
             /\ pointDeltas' = [pointDeltas EXCEPT ![call.quizAttemptId] =
                                  Append(@, call.totalPoints)]
        ELSE UNCHANGED <<profiles, pointDeltas>>
     /\ Finish(c, i)
  /\ UNCHANGED <<quiz_attempts, question_attempts, user_engagement_metrics,
                 quiz_assignments, now, scenario, routeVars, answerVars, submitCalls,
                 completionLog>>

Next ==
  \/ Tick
  \/ \E c \in Clients : \E u \in SessionUsers(c), q \in QuizChoices, o \in InitOutcomes :
        initializeQuiz(c, u, q, o)
  \/ \E c \in Clients, a \in AnswerChoices : setSelectedAnswer(c, a)
  \/ \E c \in Clients : handleAnswerSubmit(c)
  \/ \E c \in Clients, i \in 1..MaxInFlight, ok \in BOOLEAN : AnswerSubmitReturns(c, i, ok)
  \/ \E c \in Clients : handleNextQuestion(c)
  \/ \E c \in Clients, i \in 1..MaxInFlight, ok \in BOOLEAN : CompleteUpdateReturns(c, i, ok)
  \/ \E c \in Clients, i \in 1..MaxInFlight, ok \in BOOLEAN : CompleteSelectReturns(c, i, ok)
  \/ \E c \in Clients, i \in 1..MaxInFlight, ok \in BOOLEAN : CompleteWriteReturns(c, i, ok)

Spec == Init /\ [][Next]_vars

\* An awaited storage call returns, and the user keeps going: a control that
\* stays enabled is eventually used.
Fairness ==
  \A c \in Clients :
    /\ WF_vars(\E a \in AnswerChoices : setSelectedAnswer(c, a))
    /\ WF_vars(handleAnswerSubmit(c))
    /\ WF_vars(handleNextQuestion(c))
    /\ WF_vars(\E i \in 1..MaxInFlight, ok \in BOOLEAN : AnswerSubmitReturns(c, i, ok))
    /\ WF_vars(\E i \in 1..MaxInFlight, ok \in BOOLEAN : CompleteUpdateReturns(c, i, ok))
    /\ WF_vars(\E i \in 1..MaxInFlight, ok \in BOOLEAN : CompleteSelectReturns(c, i, ok))
    /\ WF_vars(\E i \in 1..MaxInFlight, ok \in BOOLEAN : CompleteWriteReturns(c, i, ok))

FairSpec == Spec /\ Fairness

\* The runs in which no handler is invoked while an invocation of it is
\* pending.
SeqInit == InitState /\ scenario \in {"single", "pages"}
SeqSpec == SeqInit /\ [][Next]_vars

\* ------------------------------------------------------------- claims
AttemptIds == DOMAIN quiz_attempts
Completed(a) == quiz_attempts[a].completed_at # NULL

\* The persisted QuestionAttempt rows of attempt a, as a sequence (a row
\* stored k times occurs k times).
RECURSIVE BagRows(_)
BagRows(B) ==
  IF DOMAIN B = {} THEN << >>
  ELSE LET r == CHOOSE x \in DOMAIN B : TRUE
           rest == [x \in DOMAIN B \ {r} |-> B[x]]
       IN [k \in 1..B[r] |-> r] \o BagRows(rest)
PersistedRows(a) ==
  SelectSeq(BagRows(question_attempts), LAMBDA r : r.quiz_attempt_id = a)
PersistedPoints(a) ==
  SumSeq([k \in 1..Len(PersistedRows(a)) |-> PersistedRows(a)[k].points_earned])
PersistedCorrect(a) ==
  Len(SelectSeq(PersistedRows(a), LAMBDA r : r.is_correct))

\* The sum of the values of a function with a finite domain.
RECURSIVE SumFn(_)
SumFn(f) ==
  IF DOMAIN f = {} THEN 0
  ELSE LET x == CHOOSE y \in DOMAIN f : TRUE
       IN f[x] + SumFn([y \in DOMAIN f \ {x} |-> f[y]])

NoCompletePending == \A c \in Clients : completeCalls[c] = << >>

\* C1: whatever the sequence or overlap of completeQuiz invocations on an
\* attempt, its point total is added to the owner's profile.points at most
\* once (exactly once is this and the addition happening).
C1_PointsAddedOnce ==
  \A a \in AttemptIds : Len(pointDeltas[a]) <= 1

\* C2: every completed attempt's row has 0 <= correct_answers <=
\* total_questions and 0 <= score <= 100.
C2_ScoreInRange ==
  \A a \in AttemptIds :
    Completed(a) =>
      /\ 0 <= quiz_attempts[a].correct_answers
      /\ quiz_attempts[a].correct_answers <= quiz_attempts[a].total_questions
      /\ 0 <= quiz_attempts[a].score
      /\ quiz_attempts[a].score <= 100

\* C3: for a completed attempt, the point delta finalize adds to
\* profile.points is the sum of points_earned over the attempt's persisted
\* question_attempts rows.
C3_DeltaIsPersistedPoints ==
  \A a \in AttemptIds :
    Completed(a) =>
      \A k \in 1..Len(pointDeltas[a]) : pointDeltas[a][k] = PersistedPoints(a)

\* C4: for a completed attempt once its submissions have returned, the stored
\* correct_answers is the number of its persisted question_attempts rows with
\* is_correct = true.
C4_CorrectIsPersistedCount ==
  \A c \in Clients :
    (quizAttemptId[c] # NULL /\ Completed(quizAttemptId[c]) /\ submitCalls[c] = << >>)
      => quiz_attempts[quizAttemptId[c]].correct_answers
           = PersistedCorrect(quizAttemptId[c])

\* C5: when the finalizations of a user have all ended, each having written
\* its attempt's delta once, profile.points is the initial points plus the
\* sum of the deltas they wrote: no update is lost.
C5_NoLostUpdate ==
  (NoCompletePending /\ \A a \in AttemptIds : Len(pointDeltas[a]) <= 1) =>
    \A u \in Users :
      profiles[u].points =
        InitProfile.points
        + SumFn([a \in {b \in AttemptIds : quiz_attempts[b].user_id = u}
                   |-> SumSeq(pointDeltas[a])])

\* C6: there is at most one question_attempts row per (quiz_attempt_id,
\* question_id).
C6_OneAnswerPerQuestion ==
  \A r1, r2 \in DOMAIN question_attempts :
    (r1.quiz_attempt_id = r2.quiz_attempt_id /\ r1.question_id = r2.question_id)
      => (r1 = r2 /\ question_attempts[r1] = 1)

\* C7: the engagement rows count every completed attempt exactly once, and a
\* step in which no attempt goes from completed_at = NULL to non-NULL (so
\* every write to quiz_attempts of an already completed attempt) leaves
\* user_engagement_metrics and quiz_assignments unchanged.
C7_CountedOnce ==
  SumFn([r \in user_engagement_metrics |-> r.quizzes_completed])
    = Cardinality({a \in AttemptIds : Completed(a)})
C7_RepeatStep ==
  (\A a \in AttemptIds : ~Completed(a) => quiz_attempts'[a].completed_at = NULL)
    => UNCHANGED <<user_engagement_metrics, quiz_assignments>>
C7_EngagementOncePerAttempt == [](C7_CountedOnce) /\ [][C7_RepeatStep]_vars

\* A completed attempt whose row was written again by a later finalize.
C7_Witness ==
  \E e \in completionLog :
    /\ quiz_attempts[e.attempt].completed_at # e.completed_at
    /\ \E r \in user_engagement_metrics : r.user_id = e.user_id

\* C8: once an attempt is completed, no later step changes its row.
C8_CompletedRowFrozen ==
  [][\A a \in AttemptIds : Completed(a) => quiz_attempts'[a] = quiz_attempts[a]]_vars

\* C9: for every (user, date), the engagement table holds no row when no
\* attempt of the user completed on the date, and otherwise exactly one row,
\* with quizzes_completed the number of those completions and the two totals
\* the sums of the time_spent_seconds and the score each completion stored.
Dates == { DATE(t) : t \in ClockStart..(ClockStart + MaxTime) }
CompletionsOn(u, d) == {e \in completionLog : e.user_id = u /\ e.date = d}
C9_EngagementRow ==
  \A u \in Users, d \in Dates :
    LET rows == {r \in user_engagement_metrics : r.user_id = u /\ r.date = d}
        done == CompletionsOn(u, d)
    IN /\ \A r \in user_engagement_metrics : r.date \in Dates
       /\ IF done = {} THEN rows = {}
          ELSE rows = { [user_id |-> u, date |-> d,
                         quizzes_completed |-> Cardinality(done),
                         total_time_spent_seconds |->
                           SumFn([e \in done |-> e.time_spent_seconds]),
                         total_score |-> SumFn([e \in done |-> e.score])] }

\* Two completions of one user on one date, with time and score to add up.
C9_Witness ==
  \E r \in user_engagement_metrics :
    r.quizzes_completed = 2 /\ r.total_time_spent_seconds > 0 /\ r.total_score > 0

\* C10: a completed assignment is changed by no later step.
C10_CompletedAssignmentFrozen ==
  [][\A r \in quiz_assignments : r.is_completed => r \in quiz_assignments']_vars

\* C11: in a step that takes an attempt from completed_at = NULL to non-NULL,
\* an incomplete assignment of the attempt's (quiz_id, user_id) becomes
\* is_completed = TRUE with the attempt's completed_at, and the assignments
\* of every other (quiz, user) stay as they are.
C11_AssignmentCompleted ==
  [][\A a \in AttemptIds :
       (~Completed(a) /\ quiz_attempts'[a].completed_at # NULL) =>
         /\ Cardinality(quiz_assignments') = Cardinality(quiz_assignments)
         /\ \A r \in quiz_assignments :
              IF r.quiz_id = quiz_attempts[a].quiz_id
                 /\ r.user_id = quiz_attempts[a].user_id
              THEN ~r.is_completed =>
                     [r EXCEPT !.is_completed = TRUE,
                               !.completed_at = quiz_attempts'[a].completed_at]
                       \in quiz_assignments'
              ELSE r \in quiz_assignments']_vars

\* An assignment completed with its attempt's completed_at while another
\* assignment of the same user is still open.
C11_Witness ==
  \E r, r2 \in quiz_assignments, a \in AttemptIds :
    /\ r.is_completed
    /\ quiz_attempts[a].quiz_id = r.quiz_id /\ quiz_attempts[a].user_id = r.user_id
    /\ quiz_attempts[a].completed_at = r.completed_at
    /\ r2.user_id = r.user_id /\ ~r2.is_completed

\* C12: a profile update of completeQuiz, applied to the profile it read
\* (no other update of the profile came between), takes streak_count = s to
\* s + 1 when the score is at least 70 and to 0 when it is below.
C12_StreakRule ==
  [][\A c \in Clients, i \in 1..MaxInFlight :
       ( /\ i \in DOMAIN completeCalls[c]
         /\ completeCalls[c][i].pc = "write"
         /\ completeCalls'[c] = RemoveAt(completeCalls[c], i)
         /\ pointDeltas' # pointDeltas
         /\ completeCalls[c][i].currentProfile = profiles[completeCalls[c][i].user_id] )
       => profiles'[completeCalls[c][i].user_id].streak_count =
            IF completeCalls[c][i].score >= 70
            THEN profiles[completeCalls[c][i].user_id].streak_count + 1
            ELSE 0]_vars

\* One account's streak went up by one and another's was reset.
C12_Witness ==
  \E u, v \in Users :
    /\ profiles[u].streak_count = InitProfile.streak_count + 1
    /\ profiles[v].streak_count = 0
    /\ \E a, b \in AttemptIds :
         /\ quiz_attempts[a].user_id = u /\ Len(pointDeltas[a]) = 1
         /\ quiz_attempts[b].user_id = v /\ Len(pointDeltas[b]) = 1

\* C13: when the finalizations of a user have all ended, each attempt's
\* result applied once and every score at least 70, streak_count is the
\* initial streak_count plus the number of finalizations.
C13_StreakCountsEveryFinalize ==
  ( /\ NoCompletePending
    /\ \A a \in AttemptIds : Len(pointDeltas[a]) <= 1
    /\ \A a \in AttemptIds : Len(pointDeltas[a]) = 1 => quiz_attempts[a].score >= 70 )
  => \A u \in Users :
       profiles[u].streak_count =
         InitProfile.streak_count
         + Cardinality({a \in AttemptIds :
                          quiz_attempts[a].user_id = u /\ Len(pointDeltas[a]) = 1})

\* C14: the profile is written for an attempt only if the attempt's row was
\* taken to Completed: a finalize whose update of the attempt failed leaves
\* points and streak_count alone.
C14_AggregationOnlyAfterTransition ==
  \A a \in AttemptIds : Len(pointDeltas[a]) > 0 => Completed(a)

\* C15: an attempt whose completed_at is non-NULL keeps a non-NULL
\* completed_at in every later state.
C15_CompletedIsTerminal ==
  [][\A a \in AttemptIds : Completed(a) => quiz_attempts'[a].completed_at # NULL]_vars

\* The finalize of a page ended with its attempt completed and the profile
\* not written: the profile read or the profile update failed.
AggregationFailed(c) ==
  /\ quizAttemptId[c] # NULL
  /\ Completed(quizAttemptId[c])
  /\ isCompleted[c]
  /\ completeCalls[c] = << >>
  /\ pointDeltas[quizAttemptId[c]] = << >>

C15_Witness == \E c \in Clients : AggregationFailed(c)

\* C16: when a finalize ended with its attempt completed and the profile
\* not written, the attempt's points are eventually added to the profile.
C16_FailedAggregationRetried ==
  \A c \in Clients :
    [](AggregationFailed(c) =>
         <>(quizAttemptId[c] # NULL /\ Len(pointDeltas[quizAttemptId[c]]) > 0))

\* C17: no question_attempts row is added to a completed attempt.
C17_NoAnswerAfterCompleted ==
  [][\A a \in AttemptIds :
       Completed(a) =>
         \A r \in DOMAIN question_attempts' :
           r.quiz_attempt_id = a =>
             /\ r \in DOMAIN question_attempts
             /\ question_attempts'[r] <= question_attempts[r]]_vars

\* C18: no quiz_attempts row has total_questions = 0.
C18_NoEmptyAttempt ==
  \A a \in AttemptIds : quiz_attempts[a].total_questions > 0

C20_StreakNonNegative == \A u \in Users : profiles[u].streak_count >= 0
C20_PointsStep == \A u \in Users : profiles'[u].points >= profiles[u].points
C20_PointsMonotonic == [](C20_StreakNonNegative) /\ [][C20_PointsStep]_vars

\* The page has an attempt and completeQuiz was never invoked on it: no
\* invocation is pending and none has ended.
NotFinalized(c) ==
  /\ quizAttemptId[c] # NULL
  /\ completeCalls[c] = << >>
  /\ ~isCompleted[c]

\* C21: an attempt on which completeQuiz was never invoked has completed_at =
\* NULL, no profile update and no completion recorded for it; and while
\* completeQuiz was invoked on no attempt, the profiles, the engagement rows
\* and the assignments are as they were at the start.
C21_AbandonedAttemptInert ==
  /\ \A c \in Clients :
       NotFinalized(c) =>
         /\ ~Completed(quizAttemptId[c])
         /\ pointDeltas[quizAttemptId[c]] = << >>
         /\ \A e \in completionLog : e.attempt # quizAttemptId[c]
  /\ (\A c \in Clients : completeCalls[c] = << >> /\ ~isCompleted[c]) =>
       /\ profiles = [u \in Users |-> InitProfile]
       /\ user_engagement_metrics = {}
       /\ quiz_assignments = InitAssignments

\* An answered attempt left alone while another attempt of the same user was
\* completed.
C21_Witness ==
  \E c, d \in Clients :
    /\ NotFinalized(c) /\ Len(attempts[c]) > 0
    /\ quizAttemptId[d] # NULL /\ Completed(quizAttemptId[d])
    /\ user[c] = user[d]

\* C22: no step decreases quizzes_completed, total_time_spent_seconds or
\* total_score of an engagement row (and no step removes a row).
C22_CountersStep ==
  \A r \in user_engagement_metrics :
    \E r2 \in user_engagement_metrics' :
      /\ r2.user_id = r.user_id /\ r2.date = r.date
      /\ r2.quizzes_completed >= r.quizzes_completed
      /\ r2.total_time_spent_seconds >= r.total_time_spent_seconds
      /\ r2.total_score >= r.total_score
C22_CountersNeverDecrease == [][C22_CountersStep]_vars

\* An engagement row that counted two completions with different scores.
C22_Witness ==
  \E r \in user_engagement_metrics, e1, e2 \in completionLog :
    /\ r.quizzes_completed = 2
    /\ e1.user_id = r.user_id /\ e1.date = r.date
    /\ e2.user_id = r.user_id /\ e2.date = r.date
    /\ e1.score > e2.score

\* C23: a step keeps total_questions, user_id, quiz_id and started_at of every
\* attempt, removes no attempt, and changes the row of at most one attempt.
C23_FrameStep ==
  /\ Len(quiz_attempts') >= Len(quiz_attempts)
  /\ \A a \in AttemptIds :
       /\ quiz_attempts'[a].total_questions = quiz_attempts[a].total_questions
       /\ quiz_attempts'[a].user_id = quiz_attempts[a].user_id
       /\ quiz_attempts'[a].quiz_id = quiz_attempts[a].quiz_id
       /\ quiz_attempts'[a].started_at = quiz_attempts[a].started_at
  /\ \A a, b \in AttemptIds :
       a # b => (quiz_attempts'[a] = quiz_attempts[a] \/ quiz_attempts'[b] = quiz_attempts[b])
C23_FinalizeFrame == [][C23_FrameStep]_vars

\* An attempt completed after it was started, beside an attempt of the same
\* user that is still as it was created.
C23_Witness ==
  \E a, b \in AttemptIds :
    /\ a # b
    /\ Completed(a) /\ quiz_attempts[a].started_at < quiz_attempts[a].completed_at
    /\ quiz_attempts[b].user_id = quiz_attempts[a].user_id
    /\ quiz_attempts[b] = NewAttemptRow(quiz_attempts[b].user_id, quiz_attempts[b].quiz_id,
                                        quiz_attempts[b].total_questions,
                                        quiz_attempts[b].started_at)

\* A text without its leading and trailing white space.
RECURSIVE TrimLeft(_)
TrimLeft(t) == IF t # << >> /\ Head(t) = " " THEN TrimLeft(Tail(t)) ELSE t
RECURSIVE TrimRight(_)
TrimRight(t) ==
  IF t # << >> /\ t[Len(t)] = " " THEN TrimRight(SubSeq(t, 1, Len(t) - 1)) ELSE t
Trim(t) == TrimRight(TrimLeft(t))

QuestionById(id) == CHOOSE q \in questionRows : q.id = id

\* C24: every question_attempts row has is_correct true exactly when its
\* user_answer, trimmed of white space, equals the question's correct_answer,
\* and points_earned = the question's points when is_correct and 0 otherwise.
C24_IsCorrectTrimmed ==
  \A r \in DOMAIN question_attempts :
    /\ r.is_correct = (Trim(r.user_answer) = QuestionById(r.question_id).correct_answer)
    /\ r.points_earned = IF r.is_correct THEN QuestionById(r.question_id).points ELSE 0

\* The attempt of page c has a question_attempts row for question id.
Persisted(c, id) ==
  \E r \in DOMAIN question_attempts :
    r.quiz_attempt_id = quizAttemptId[c] /\ r.question_id = id

\* C25: an answer whose insert failed is not in the page's attempts list and
\* its feedback is not shown: every entry of the list, and the question whose
\* feedback is on screen, has a question_attempts row.
C25_FailedInsertNotCounted ==
  \A c \in Clients :
    /\ \A k \in 1..Len(attempts[c]) : Persisted(c, attempts[c][k].questionId)
    /\ (QuestionPage(c) /\ showFeedback[c]) =>
         Persisted(c, questions[c][currentQuestionIndex[c] + 1].id)

\* C26: an attempt's total_questions is the total_questions of its quiz.
C26_TotalCopiedFromQuiz ==
  \A a \in AttemptIds :
    quiz_attempts[a].total_questions = quizzes[quiz_attempts[a].quiz_id].total_questions

\* The number of question_attempts rows of page c's attempt for question id.
RowsFor(c, id) ==
  Len(SelectSeq(PersistedRows(quizAttemptId[c]), LAMBDA r : r.question_id = id))

\* C27: without overlapping handler invocations, before completion the
\* page's list of recorded answers has currentQuestionIndex entries, and one
\* more when the feedback is shown; its k-th entry is for the k-th question;
\* storage holds at most one row for each of these questions and none for a
\* later one; Submit can be used only while showFeedback is false and Next
\* only while it is true.
C27_AnswersTrackPosition ==
  \A c \in Clients :
    (QuestionPage(c) /\ quizAttemptId[c] # NULL) =>
      LET answered == currentQuestionIndex[c] + (IF showFeedback[c] THEN 1 ELSE 0) IN
      /\ Len(attempts[c]) = answered
      /\ \A k \in 1..Len(attempts[c]) : attempts[c][k].questionId = questions[c][k].id
      /\ \A k \in 1..Len(questions[c]) :
           RowsFor(c, questions[c][k].id) <= (IF k <= answered THEN 1 ELSE 0)
      /\ (ENABLED handleAnswerSubmit(c)) => ~showFeedback[c]
      /\ (ENABLED handleNextQuestion(c)) => showFeedback[c]

\* The page is on its third question with the feedback shown.
C27_Witness ==
  \E c \in Clients :
    /\ QuestionPage(c) /\ quizAttemptId[c] # NULL
    /\ currentQuestionIndex[c] = 2 /\ showFeedback[c] /\ Len(attempts[c]) = 3
    /\ completeCalls[c] = << >>

\* The page's completeQuiz was invoked, or its attempt is completed.
FinalizeReached(c) ==
  \/ completeCalls[c] # << >>
  \/ isCompleted[c]
  \/ quizAttemptId[c] # NULL /\ Completed(quizAttemptId[c])

C29_NoAttemptId ==
  \A c \in Clients :
    quizAttemptId[c] = NULL =>
      /\ submitCalls[c] = << >> /\ completeCalls[c] = << >>
      /\ attempts[c] = << >> /\ ~isCompleted[c]
C29_LoadStep ==
  \A c \in Clients :
    ( /\ page[c] = "closed" /\ page'[c] # "closed"
      /\ \/ quiz'[c] = NoQuiz
         \/ questions'[c] = << >> /\ SelectQuestions(quizId'[c]) # << >> )
    => quiz_attempts' = quiz_attempts /\ quizAttemptId'[c] = NULL
C29_FailedLoadCreatesNothing == [](C29_NoAttemptId) /\ [][C29_LoadStep]_vars

\* A page load of the unpublished quiz ended on the dashboard with no attempt.
C29_Witness ==
  \E c \in Clients :
    /\ page[c] = "dashboard" /\ quizId[c] = "q3" /\ quiz[c] = NoQuiz
    /\ quizAttemptId[c] = NULL /\ quiz_attempts = << >>

\* C30: a page showing a quiz for its attempt eventually has the attempt
\* completed (completed_at set) and isCompleted true.
C30_AttemptEventuallyCompleted ==
  \A c \in Clients :
    []((quizAttemptId[c] # NULL /\ page[c] = "quiz") =>
         <>(isCompleted[c] /\ Completed(quizAttemptId[c])))
====
